---------------------------- MODULE Spec2Model ----------------------------
(***************************************************************************)
(* Model of the CHEESE batch clients:                                      *)
(*   src/synthongpt_api_to_csv.py  (the single-query client: submit a job, *)
(*                                  wait for page 0, fetch the pages)      *)
(*   src/cheese_api_to_csv.py      (the bulk client: /batch_search or      *)
(*                                  /molsearch inside a retry loop)        *)
(* Both append rows to one CSV output and resume from its query_id column. *)
(*                                                                         *)
(* Spec      : the run of main() of either client, over several runs of    *)
(*             the process on the same output file, with process crashes.  *)
(* SpecParse : the response normalizers (parse_hits and the page loop of   *)
(*             iter_results_paged) applied to bounded payloads.            *)
(***************************************************************************)
EXTENDS Integers, Sequences, FiniteSets, TLC

(* ------------------------------ bounds --------------------------------- *)
\* number of queries of the input CSV
MaxQueries == 2
\* largest number of hits one remote answer carries
MaxHits == 2
\* largest value of --retries explored
MaxRetries == 1
\* number of runs of the process on the same output file
MaxRuns == 2
\* largest value of --batch-size explored
MaxBatch == 2
\* largest number of lines of the output file explored
MaxLines == 6
\* largest number of pieces a raw identifier is built of
MaxChunks == 2
\* largest number of entries of a payload or page
MaxEntries == 2
\* largest page number the paged fetcher is followed to
MaxPages == 2
\* lines of an output file given to load_processed_query_ids
MaxFileLines == 3
\* members of a JSON object answered to a submission
MaxMembers == 2
\* --max-wait-sec, in seconds
MaxWait == 2

(* --------------------------- generic helpers --------------------------- *)
Range(s) == {s[i] : i \in 1..Len(s)}

Min2(a, b) == IF a < b THEN a ELSE b

Max2(a, b) == IF a > b THEN a ELSE b

Prefix(s, k) == SubSeq(s, 1, k)

\* The characters str.strip() removes; a string or a sequence of characters.
Whitespace == {" ", "\t", "\n"}

\* str.strip()
RECURSIVE LStrip(_)
LStrip(s) == IF Len(s) > 0 /\ Head(s) \in Whitespace THEN LStrip(Tail(s)) ELSE s

RECURSIVE RStrip(_)
RStrip(s) ==
    IF Len(s) > 0 /\ Head(SubSeq(s, Len(s), Len(s))) \in Whitespace
    THEN RStrip(SubSeq(s, 1, Len(s) - 1)) ELSE s

Strip(s) == RStrip(LStrip(s))

(* ------------------------------ CSV lines ------------------------------ *)
\* A line of the output is the sequence of its fields.
\* write_csv_header_if_needed: the header row.
Header == <<"query_id", "query_smiles", "hit_smiles", "hit_id", "similarity">>

\* iter_input_csv without --id-col: the query id is str(idx), idx from 1.
QueryId(idx) == ToString(idx)

QuerySmiles(idx) == "S" \o ToString(idx)

\* The (qid, smiles) pairs iter_input_csv yields, in input order.
InputItems == [idx \in 1..MaxQueries |-> <<QueryId(idx), QuerySmiles(idx)>>]

\* The k-th hit (hit_smiles, hit_id, similarity) of a remote answer.
Hit(k) == <<"C" \o ToString(k), "Z" \o ToString(k), "0.9">>

\* An answer of h hits, as process_one_query / parse_hits return it.
Hits(h) == [k \in 1..h |-> Hit(k)]

\* writer.writerow([qid, smiles, hit_smiles, hit_id, sim]) for each hit.
RowsFor(item, hits) ==
    [k \in 1..Len(hits) |-> <<item[1], item[2], hits[k][1], hits[k][2], hits[k][3]>>]

\* hits[: args.n]
Take(hits, n) == Prefix(hits, Min2(n, Len(hits)))

\* A line of a file that holds bytes that are not UTF-8.
Undecodable == <<"<not UTF-8>">>

\* csv.DictReader: the first line gives the field names; the value of column
\* "query_id" of every later line.  Returns the set of ids of the file.
FieldIndex(fields, name) == CHOOSE c \in 1..Len(fields) : fields[c] = name

\* row.get("query_id") or "": a row too short for the column gives "".
Field(row, c) == IF c <= Len(row) THEN row[c] ELSE ""

\* Reading the file with encoding utf-8-sig raises UnicodeDecodeError.
LoadRaises(exists, lines) == exists /\ Undecodable \in Range(lines)

load_processed_query_ids(exists, lines) ==
    IF ~exists THEN {}
    ELSE IF lines = <<>> THEN {}
    ELSE IF "query_id" \notin Range(lines[1]) THEN {}
    ELSE LET c == FieldIndex(lines[1], "query_id")
         IN  {Strip(Field(lines[r], c)) : r \in 2..Len(lines)} \ {""}

\* wrote_header before the file is opened: True when the file exists and
\* --overwrite is not given (the content of the file is not looked at).
WroteHeaderInit(exists, ow) == exists /\ ~ow

\* write_csv_header_if_needed: the lines the call writes.
MutHeaderAlways(wrote) == <<Header>>

write_csv_header_if_needed(wrote) == IF ~wrote THEN <<Header>> ELSE <<>>


(* ------------------------- strings and JSON values --------------------- *)
\* A string is the sequence of its characters.
Sentinel == <<"Q", "u", "e", "r", "y", " ", "M", "o", "l", "e", "c", "u", "l", "e">>

Suffix == <<"-", "D", "M", "C", "H">>

DigitChars == <<"0", "1", "2", "3", "4", "5", "6", "7", "8", "9">>

StartsWith(s, old) == Len(s) >= Len(old) /\ SubSeq(s, 1, Len(old)) = old

EndsWith(s, old) ==
    Len(s) >= Len(old) /\ SubSeq(s, Len(s) - Len(old) + 1, Len(s)) = old

\* str.replace(old, ""): every occurrence of old, left to right, is removed.
RECURSIVE Remove(_, _)
Remove(s, old) ==
    IF s = <<>> THEN <<>>
    ELSE IF StartsWith(s, old) THEN Remove(SubSeq(s, Len(old) + 1, Len(s)), old)
    ELSE <<s[1]>> \o Remove(Tail(s), old)

\* JSON values as Python holds them.
JNull == [t |-> "null"]

JStr(s) == [t |-> "str", s |-> s]

JNum(x) == [t |-> "num", x |-> x]

JList(l) == [t |-> "list", l |-> l]

JDict(d) == [t |-> "dict", d |-> d]

\* dict.get(k)
Get(d, k) == IF k \in DOMAIN d THEN d[k] ELSE JNull

\* bool(v)
Truthy(v) ==
    CASE v.t = "null" -> FALSE
      [] v.t = "str"  -> v.s # <<>>
      [] v.t = "num"  -> v.x # 0
      [] v.t = "list" -> v.l # <<>>
      [] v.t = "dict" -> DOMAIN v.d # {}

\* a or b
Or(a, b) == IF Truthy(a) THEN a ELSE b

\* str(v) of a string, None or a one-digit number
PyStr(v) ==
    CASE v.t = "str"  -> v.s
      [] v.t = "null" -> <<"N", "o", "n", "e">>
      [] v.t = "num"  -> <<DigitChars[v.x + 1]>>

DigitValue(c) == (CHOOSE k \in 1..10 : DigitChars[k] = c) - 1

RECURSIVE Decimal(_)
Decimal(s) == IF s = <<>> THEN 0 ELSE 10 * Decimal(SubSeq(s, 1, Len(s) - 1)) + DigitValue(s[Len(s)])

\* float(v): the number, or None where float() raises (the callers catch it).
ToFloat(v) ==
    CASE v.t = "num" -> v
      [] v.t = "str" ->
           LET d == Strip(v.s)
           IN  IF d # <<>> /\ \A k \in 1..Len(d) : d[k] \in Range(DigitChars)
               THEN JNum(Decimal(d)) ELSE JNull
      [] OTHER -> JNull

(* ------------------------------- state --------------------------------- *)
VARIABLES
    client,        \* "single": synthongpt_api_to_csv.py, "bulk": cheese_api_to_csv.py
    retries,       \* the configured retry limit (--retries of the bulk client;
                   \* main() of the single-query client reads no such option)
    batch_size,    \* --batch-size
    no_batch,      \* --no-batch
    n,             \* --n, the number of hits asked per query
    input,         \* the (qid, smiles) pairs of the input CSV
    run,           \* number of runs of the process started so far
    resume,        \* --resume of the current run
    overwrite,     \* --overwrite of the current run
    pc,            \* position of main()
    file_exists,   \* os.path.exists(args.out)
    disk,          \* the lines of the output file that reached storage
    buf,           \* the lines written to f_out and not flushed yet
    processed,     \* the set processed of main()
    wrote_header,  \* wrote_header of main()
    items,         \* the queries main() iterates over
    i,             \* single: index of the current query; bulk: i of main()
    batch,         \* bulk: the current batch
    j,             \* bulk: position inside the batch of the current attempt
    attempt,       \* bulk: attempt of the retry loop
    last_err,      \* last_err of the bulk client, the caught exception of the
                   \* single-query client ("none" for None)
    hits,          \* single: the hits process_one_query returned
    \* history of the runs, read by the properties only
    runStart,      \* number of lines of the file when the run opened it
    startState,    \* the file when the run opened it: "absent", "empty", "nonempty"
    allResume,     \* every run so far had --resume and no --overwrite
    paced,         \* the run has slept its pacing delay (time.sleep of
                   \* --sleep-between) since the last query or batch it
                   \* processed ended, or it has processed none yet
    cycledPrev,    \* ids that completed a full cycle in an earlier run on this file
    cycledNow,     \* ids that completed a full cycle in the current run
    skippedNow,    \* ids the current run skipped as already processed
    attemptedNow,  \* ids the current run made a remote call for
    fetched,       \* per id, the number of hits of its last answer written (-1: none)
    attempts,      \* attempts made for the current query or batch
    errKinds,      \* kinds of the errors raised for the current query or batch
    \* the response normalizers (SpecParse)
    p_pc,          \* "idle", "input", "parsed", "paging", "done", "raised"
    p_shape,       \* "neighbors", "arrays": parse_hits; "paged": iter_results_paged
    payload,       \* the payload given to parse_hits, the last page received
    p_out,         \* out: the hits (hit_smiles, hit_id, score) emitted, each
                   \* with the raw identifier it came from
    page_num,      \* page_num of iter_results_paged
    total_needed,  \* total_needed of iter_results_paged
    page_size,     \* page_size of iter_results_paged
    page_log,      \* history: per page fetched, the number n of its aligned
                   \* entries and how many of them were the sentinel, with the
                   \* job_name and the page_num of the request
    \* submit_synthongpt_job and wait_until_results_available
    response,      \* the HTTP response of the submission
    job_name,      \* the job handle submit_synthongpt_job returned ("" for none)
    raised,        \* the exception that left the function
    poll_sec,      \* poll_sec, in seconds
    max_wait_sec,  \* max_wait_sec, in seconds
    w_attempt,     \* attempt of wait_until_results_available
    elapsed,       \* time.time() - start, in ticks of 1/20 second
    probes         \* history: the outcomes of the probes made, in order

config == <<client, retries, batch_size, no_batch, n, input>>

file == <<file_exists, disk, buf>>

locals == <<processed, wrote_header, items, i, batch, j, attempt, last_err, hits>>

\* What a run is started with, and found.
started == <<run, resume, overwrite, runStart, startState, allResume>>

runvars == <<started, paced>>

history == <<cycledPrev, cycledNow, skippedNow, attemptedNow, fetched>>

item == <<attempts, errKinds>>

calls == <<response, job_name, raised, poll_sec, max_wait_sec, w_attempt, elapsed, probes>>

parse == <<p_pc, p_shape, payload, p_out, page_num, total_needed, page_size, page_log, calls>>

vars == <<config, file, locals, runvars, history, item, pc, parse>>

\* The content of the file as the running process sees it.
Content == disk \o buf

\* The exploration stops at files of MaxLines lines.
Room(k) == Len(disk) + Len(buf) + k <= MaxLines

\* Kinds of failures of a remote call: "auth" is HTTP 401, 403 or 422
\* (_raise_for_status_with_hint), "transient" any other exception.
ErrKinds == {"transient", "auth"}

\* The numbers of hits a remote answer may carry.
HitCounts == {0, MaxHits}

Qids == {InputItems[k][1] : k \in 1..MaxQueries}

NoFetch == [q \in Qids |-> -1]

\* No exception, no response.
NoError == [kind |-> "none"]

NoResponse == [status |-> 0, body |-> JNull]

\* No submission and no wait is running.
CallsIdle ==
    /\ response = NoResponse /\ job_name = "" /\ raised = NoError
    /\ poll_sec = 0 /\ max_wait_sec = 0 /\ w_attempt = 0 /\ elapsed = 0
    /\ probes = <<>>

\* No normalizer is running.
ParseIdle ==
    /\ p_pc = "idle" /\ p_shape = "none" /\ payload = JNull
    /\ p_out = <<>>
    /\ page_num = 0 /\ total_needed = 0 /\ page_size = 0
    /\ page_log = <<>>
    /\ CallsIdle

\* No run has started, and there is no output file.
NoRun ==
    /\ run = 0 /\ resume = FALSE /\ overwrite = FALSE
    /\ pc = "idle"
    /\ file_exists = FALSE /\ disk = <<>> /\ buf = <<>>
    /\ processed = {} /\ wrote_header = FALSE /\ items = <<>> /\ i = 0
    /\ batch = <<>> /\ j = 0 /\ attempt = 0 /\ last_err = "none" /\ hits = <<>>
    /\ runStart = 0 /\ startState = "absent" /\ allResume = TRUE /\ paced = TRUE
    /\ cycledPrev = {} /\ cycledNow = {} /\ skippedNow = {} /\ attemptedNow = {}
    /\ fetched = NoFetch
    /\ attempts = 0 /\ errKinds = {}

Init ==
    /\ client \in {"single", "bulk"}
    /\ retries \in 0..MaxRetries
    /\ batch_size \in 1..MaxBatch
    /\ no_batch \in BOOLEAN
    /\ (client = "single") => (batch_size = 1 /\ no_batch = FALSE)
    /\ n = MaxHits
    /\ input \in {Prefix(InputItems, k) : k \in 0..MaxQueries}
    /\ NoRun
    /\ ParseIdle

(* ------------------------ start of a run: main() ----------------------- *)
\* bulk: items = [... if qid not in processed] under --resume.
FilterItems(its, done) == SelectSeq(its, LAMBDA it : it[1] \notin done)

\* main() up to the header: --overwrite removes the file, --resume loads the
\* processed ids, the file is opened for append (which creates it) and the
\* header is written to it unless wrote_header.
StartRun(r, ow) ==
    /\ pc \in {"idle", "done", "crashed"}
    /\ run < MaxRuns
    /\ LET removed == ow /\ file_exists
           exists1 == file_exists /\ ~removed
           disk1   == IF removed THEN <<>> ELSE disk
           done    == IF r THEN load_processed_query_ids(exists1, disk1) ELSE {}
           wh      == WroteHeaderInit(exists1, ow)
       IN  /\ run' = run + 1 /\ resume' = r /\ overwrite' = ow
           /\ processed' = done
           /\ file_exists' = TRUE
           /\ disk' = disk1
           /\ buf' = write_csv_header_if_needed(wh)
           /\ wrote_header' = TRUE
           /\ items' = IF client = "bulk" /\ r THEN FilterItems(input, done)
                       ELSE input
           /\ i' = IF client = "bulk" THEN 0 ELSE 1
           /\ runStart' = Len(disk1)
           /\ startState' = IF ~exists1 THEN "absent"
                            ELSE IF disk1 = <<>> THEN "empty" ELSE "nonempty"
           /\ allResume' = (allResume /\ r /\ ~ow)
           /\ cycledPrev' = IF removed THEN {} ELSE cycledPrev
           /\ fetched' = IF removed THEN NoFetch ELSE fetched
           /\ skippedNow' = IF client = "bulk" /\ r
                            THEN {it[1] : it \in Range(input)} \cap done ELSE {}
    /\ cycledNow' = {} /\ attemptedNow' = {}
    /\ batch' = <<>> /\ j' = 0 /\ attempt' = 0 /\ last_err' = "none" /\ hits' = <<>>
    /\ attempts' = 0 /\ errKinds' = {}
    /\ paced' = TRUE
    /\ pc' = "loop"
    /\ UNCHANGED <<parse, config>>

(* ----------------- single-query client: the loop of main() ------------- *)
HaveQuery == i <= Len(items)

Cur == items[i]

\* if args.resume and qid in processed: continue
SkipQuery ==
    /\ client = "single" /\ pc = "loop" /\ HaveQuery
    /\ resume /\ Cur[1] \in processed
    /\ i' = i + 1
    /\ skippedNow' = skippedNow \cup {Cur[1]}
    /\ UNCHANGED <<parse, config, file, runvars, pc, processed, wrote_header, items, batch, j,
                   attempt, last_err, hits, cycledPrev, cycledNow, attemptedNow, fetched, item>>

\* An exception leaves process_one_query: control is in the except clause.
Raise(kind) ==
    /\ pc' = "failed"
    /\ last_err' = kind
    /\ errKinds' = errKinds \cup {kind}
    /\ UNCHANGED <<i, hits>>

\* process_one_query is called and submit_synthongpt_job answers: a job name,
\* or an exception.
SubmitJob ==
    /\ client = "single" /\ pc = "loop" /\ HaveQuery
    /\ ~(resume /\ Cur[1] \in processed)
    /\ attempts' = attempts + 1
    /\ attemptedNow' = attemptedNow \cup {Cur[1]}
    /\ \/ /\ pc' = "wait"
          /\ UNCHANGED <<i, hits, last_err, errKinds>>
       \/ \E kind \in ErrKinds : Raise(kind)
    /\ UNCHANGED <<parse, config, file, runvars, processed, wrote_header, items, batch, j,
                   attempt, cycledPrev, cycledNow, skippedNow, fetched>>

\* wait_until_results_available returns (page 0 holds an identifier), raises
\* the authorization error of a probe, or raises TimeoutError.
WaitReady ==
    /\ client = "single" /\ pc = "wait"
    /\ \/ /\ pc' = "fetch"
          /\ UNCHANGED <<i, hits, last_err, errKinds>>
       \/ \E kind \in ErrKinds : Raise(kind)
    /\ UNCHANGED <<parse, config, file, runvars, processed, wrote_header, items, batch, j,
                   attempt, history, attempts>>

\* iter_results_paged returns at most n hits (none when every page entry is
\* dropped or no array is aligned), or get_molsearch_page raises.
FetchPages ==
    /\ client = "single" /\ pc = "fetch"
    /\ \/ \E h \in HitCounts :
            /\ hits' = Take(Hits(h), n)
            /\ pc' = "write"
            /\ UNCHANGED <<i, last_err, errKinds>>
       \/ \E kind \in ErrKinds : Raise(kind)
    /\ UNCHANGED <<parse, config, file, runvars, processed, wrote_header, items, batch, j,
                   attempt, history, attempts>>

\* The exception of a query leaves main(): no except clause, the run ends
\* without its final summary.
MutQueryFailedAborts ==
    /\ client = "single" /\ pc = "failed"
    /\ pc' = "aborted"
    /\ UNCHANGED <<parse, config, file, runvars, locals, history, item>>

\* except Exception as e: print [ERROR]; continue
\* The query has ended, and the loop goes on without a sleep.
QueryFailed ==
    /\ client = "single" /\ pc = "failed"
    /\ i' = i + 1
    /\ last_err' = "none"
    /\ attempts' = 0 /\ errKinds' = {}
    /\ paced' = FALSE
    /\ pc' = "loop"
    /\ UNCHANGED <<parse, config, file, started, processed, wrote_header, items, batch, j,
                   attempt, hits, history>>

\* for hit_smiles, hit_id, sim in hits: writer.writerow(...)
WriteRows ==
    /\ client = "single" /\ pc = "write"
    /\ Room(Len(hits))
    /\ buf' = buf \o RowsFor(Cur, hits)
    /\ fetched' = [fetched EXCEPT ![Cur[1]] = Len(hits)]
    /\ pc' = "flush"
    /\ UNCHANGED <<parse, config, file_exists, disk, runvars, locals, item,
                   cycledPrev, cycledNow, skippedNow, attemptedNow>>

\* f_out.flush(); processed.add(qid); print [OK]
\* The query has ended, and the loop goes on without a sleep.
FlushQuery ==
    /\ client = "single" /\ pc = "flush"
    /\ paced' = FALSE
    /\ disk' = disk \o buf
    /\ buf' = <<>>
    /\ processed' = processed \cup {Cur[1]}
    /\ cycledNow' = cycledNow \cup {Cur[1]}
    /\ hits' = <<>>
    /\ i' = i + 1
    /\ attempts' = 0 /\ errKinds' = {}
    /\ pc' = "loop"
    /\ UNCHANGED <<parse, config, file_exists, started, wrote_header, items, batch, j, attempt,
                   last_err, cycledPrev, skippedNow, attemptedNow, fetched>>

(* --------------------- bulk client: the loop of main() ----------------- *)
BatchQids == {batch[k][1] : k \in 1..Len(batch)}

\* batch = items[i : i + max(1, args.batch_size)]; i += len(batch)
TakeBatch ==
    /\ client = "bulk" /\ pc = "loop" /\ i < Len(items)
    /\ batch' = SubSeq(items, i + 1, Min2(i + Max2(1, batch_size), Len(items)))
    /\ i' = i + Len(batch')
    /\ last_err' = "none"
    /\ attempt' = 0 /\ j' = 0
    /\ attempts' = 0 /\ errKinds' = {}
    /\ pc' = "attempt"
    /\ UNCHANGED <<parse, config, file, runvars, processed, wrote_header, items, hits, history>>

\* except Exception as e: last_err = e; sleep; then the next attempt of
\* range(args.retries + 1), or the end of the retry loop, where the batch
\* has ended.
Except(kind) ==
    /\ last_err' = kind
    /\ errKinds' = errKinds \cup {kind}
    /\ j' = 0
    /\ IF attempt < retries
       THEN attempt' = attempt + 1 /\ pc' = "attempt" /\ paced' = paced
       ELSE attempt' = attempt /\ pc' = "after" /\ paced' = FALSE

\* The rows of one query of the batch are written and processed.add(qid).
WriteBatchItem(it, h) ==
    /\ Room(h)
    /\ buf' = buf \o RowsFor(it, Take(Hits(h), n))
    /\ processed' = processed \cup {it[1]}
    /\ fetched' = [fetched EXCEPT ![it[1]] = Len(Take(Hits(h), n))]

\* One attempt starts.  With /batch_search the call answers a list aligned
\* with the batch, any other payload (taken as the answer for the first query
\* of the batch), or raises; with --no-batch the queries are called in turn.
AttemptStart ==
    /\ client = "bulk" /\ pc = "attempt"
    /\ attempts' = attempts + 1
    /\ attemptedNow' = attemptedNow \cup BatchQids
    /\ IF ~no_batch /\ Len(batch) > 0
       THEN \/ /\ pc' = "zip" /\ j' = 1
               /\ UNCHANGED <<buf, processed, fetched, attempt, last_err, errKinds, paced>>
            \/ \E h \in HitCounts :
                 /\ WriteBatchItem(batch[1], h)
                 /\ pc' = "flush"
                 /\ UNCHANGED <<j, attempt, last_err, errKinds, paced>>
            \/ \E kind \in ErrKinds :
                 /\ Except(kind)
                 /\ UNCHANGED <<buf, processed, fetched>>
       ELSE /\ pc' = "perq" /\ j' = 1
            /\ UNCHANGED <<buf, processed, fetched, attempt, last_err, errKinds, paced>>
    /\ UNCHANGED <<parse, config, file_exists, disk, started, wrote_header, items, i, batch, hits,
                   cycledPrev, cycledNow, skippedNow>>

\* The next query of the batch inside one attempt: parse_hits of its entry of
\* the aligned list (which raises on a neighbor whose smiles is no string), or
\* call_molsearch and parse_hits; then its rows and processed.add(qid).
BatchItem ==
    /\ client = "bulk" /\ pc \in {"zip", "perq"}
    /\ \/ \E h \in HitCounts :
            /\ WriteBatchItem(batch[j], h)
            /\ j' = j + 1
            /\ pc' = IF j = Len(batch) THEN "flush" ELSE pc
            /\ UNCHANGED <<attempt, last_err, errKinds, paced>>
       \/ \E kind \in (IF pc = "zip" THEN {"transient"} ELSE ErrKinds) :
            /\ Except(kind)
            /\ UNCHANGED <<buf, processed, fetched>>
    /\ UNCHANGED <<parse, config, file_exists, disk, started, wrote_header, items, i, batch, hits,
                   cycledPrev, cycledNow, skippedNow, attemptedNow, attempts>>

\* f_out.flush(); last_err = None; break: the batch has ended.
FlushBatch ==
    /\ client = "bulk" /\ pc = "flush"
    /\ paced' = FALSE
    /\ disk' = disk \o buf
    /\ buf' = <<>>
    /\ last_err' = "none"
    /\ cycledNow' = cycledNow \cup (processed \cap BatchQids)
    /\ pc' = "after"
    /\ UNCHANGED <<parse, config, file_exists, started, processed, wrote_header, items, i, batch,
                   j, attempt, hits, cycledPrev, skippedNow, attemptedNow, fetched, item>>

\* if last_err is not None: print [ERROR]
\* if args.sleep_between > 0: time.sleep(args.sleep_between)
\* --sleep-between is taken as given above 0, as its default 0.2 is.
AfterBatch ==
    /\ client = "bulk" /\ pc = "after"
    /\ pc' = "loop"
    /\ batch' = <<>> /\ j' = 0 /\ attempt' = 0 /\ last_err' = "none"
    /\ attempts' = 0 /\ errKinds' = {}
    /\ paced' = TRUE
    /\ UNCHANGED <<parse, config, file, started, processed, wrote_header, items, i, hits,
                   history>>

(* ---------------------- end of a run, and crashes ---------------------- *)
\* The process is gone: its memory is lost, the history of the run is kept.
ProcessGone ==
    /\ buf' = <<>>
    /\ processed' = {} /\ wrote_header' = FALSE /\ items' = <<>> /\ i' = 0
    /\ batch' = <<>> /\ j' = 0 /\ attempt' = 0 /\ last_err' = "none" /\ hits' = <<>>
    /\ resume' = FALSE /\ overwrite' = FALSE
    /\ runStart' = 0 /\ startState' = "absent" /\ paced' = TRUE
    /\ cycledPrev' = cycledPrev \cup cycledNow
    /\ cycledNow' = {} /\ skippedNow' = {} /\ attemptedNow' = {}
    /\ attempts' = 0 /\ errKinds' = {}
    /\ UNCHANGED <<parse, config, file_exists, run, allResume, fetched>>

\* The loop ends; leaving the with block closes f_out, which flushes it.
EndRun ==
    /\ pc = "loop"
    /\ IF client = "bulk" THEN i >= Len(items) ELSE ~HaveQuery
    /\ disk' = disk \o buf
    /\ pc' = "done"
    /\ ProcessGone

\* The process is killed.  The file object writes its buffer out whenever the
\* buffer fills, so any prefix of the unflushed lines may have reached storage.
Crash ==
    /\ pc \in {"loop", "wait", "fetch", "write", "flush", "failed",
               "attempt", "zip", "perq", "after"}
    /\ \E k \in 0..Len(buf) : disk' = disk \o Prefix(buf, k)
    /\ pc' = "crashed"
    /\ ProcessGone

Next ==
    \/ \E r \in BOOLEAN, ow \in BOOLEAN : StartRun(r, ow)
    \/ SkipQuery
    \/ SubmitJob
    \/ WaitReady
    \/ FetchPages
    \/ QueryFailed
    \/ WriteRows
    \/ FlushQuery
    \/ TakeBatch
    \/ AttemptStart
    \/ BatchItem
    \/ FlushBatch
    \/ AfterBatch
    \/ EndRun
    \/ Crash

Spec == Init /\ [][Next]_vars

\* The steps of a running process: everything but the start of a run and
\* the kill.
RunStep ==
    \/ SkipQuery
    \/ SubmitJob
    \/ WaitReady
    \/ FetchPages
    \/ QueryFailed
    \/ WriteRows
    \/ FlushQuery
    \/ TakeBatch
    \/ AttemptStart
    \/ BatchItem
    \/ FlushBatch
    \/ AfterBatch
    \/ EndRun

\* A process that is not killed goes on to its next statement, and every
\* remote call returns or raises (each has a timeout, the wait has max_wait).
FairSpec == Spec /\ WF_vars(RunStep)

(* --------------------- parse_hits (bulk client) ------------------------ *)
\* candidates of pick_score, in its order.
Candidates ==
    <<"similarity", "sim", "score", "tanimoto", "morgan_tanimoto",
      "shape_similarity", "shape_sim", "shape_tanimoto",
      "espsim", "espsim_shape", "espsim_similarity", "espsim_sim",
      "electrostatic_similarity", "esp_similarity", "esp_sim",
      "cosine_similarity", "cos_sim", "cosine_sim",
      "embedding_distance", "distance", "dist",
      "espsim_distance", "shape_distance", "esp_distance">>

\* The value of the first candidate key that d holds with a value that is
\* not None; None when there is none.
FirstCandidate(d) ==
    LET found == {c \in 1..Len(Candidates) : Get(d, Candidates[c]) # JNull}
    IN  IF found = {} THEN JNull
        ELSE d[Candidates[CHOOSE c \in found : \A e \in found : c <= e]]

NestedKeys == <<"metrics", "meta", "metadata">>

pick_score(nb) ==
    LET top    == FirstCandidate(nb)
        nested == {k \in 1..Len(NestedKeys) :
                      /\ Get(nb, NestedKeys[k]).t = "dict"
                      /\ FirstCandidate(nb[NestedKeys[k]].d) # JNull}
        val    == IF top # JNull THEN top
                  ELSE IF nested = {} THEN JNull
                  ELSE FirstCandidate(
                         nb[NestedKeys[CHOOSE k \in nested : \A e \in nested : k <= e]].d)
    IN  IF val = JNull THEN JNull ELSE ToFloat(val)

\* The identifier value a neighbor is read from:
\* n.get("zinc_id") or n.get("id") or n.get("name") or n.get("identifier") or ""
NeighborRawId(nb) ==
    Or(Or(Or(Or(Get(nb, "zinc_id"), Get(nb, "id")), Get(nb, "name")),
          Get(nb, "identifier")), JStr(<<>>))

\* str(raw).strip().replace("-DMCH", "")
NormalizeId(raw) == Remove(Strip(PyStr(raw)), Suffix)

\* (n.get("smiles") or "").strip() raises when the value is no string.
NeighborRaises(nb) == Or(Get(nb, "smiles"), JStr(<<>>)).t # "str"

NeighborSmiles(nb) == Strip(Or(Get(nb, "smiles"), JStr(<<>>)).s)

\* if hit_smiles and hit_id and hit_id != "Query Molecule"
Keep(smi, hid) == smi # <<>> /\ hid # <<>> /\ hid # Sentinel

\* An emitted hit, with the raw identifier it came from.
Emit(smi, hid, score, raw) == [hit |-> <<smi, hid, score>>, raw |-> raw]

\* The hits of the neighbors list.
RECURSIVE NeighborHits(_)
NeighborHits(nbs) ==
    IF nbs = <<>> THEN <<>>
    ELSE LET nb == Head(nbs)
         IN  IF nb.t # "dict" THEN NeighborHits(Tail(nbs))
             ELSE LET smi == NeighborSmiles(nb.d)
                      raw == NeighborRawId(nb.d)
                      hid == NormalizeId(raw)
                  IN  IF Keep(smi, hid)
                      THEN <<Emit(JStr(smi), hid, pick_score(nb.d), raw)>>
                           \o NeighborHits(Tail(nbs))
                      ELSE NeighborHits(Tail(nbs))

\* The loop over the arrays ending at the first entry it does not keep.
RECURSIVE MutArrayHitsStop(_, _, _)
MutArrayHitsStop(smiles, ids, k) ==
    IF k > Min2(Len(smiles), Len(ids)) THEN <<>>
    ELSE LET smi == Strip(PyStr(smiles[k]))
             rid == NormalizeId(ids[k])
         IN  IF Keep(smi, rid)
             THEN <<Emit(JStr(smi), rid, JNull, ids[k])>>
                  \o MutArrayHitsStop(smiles, ids, k + 1)
             ELSE <<>>

RECURSIVE ArrayHits(_, _, _)
ArrayHits(smiles, ids, k) ==
    IF k > Min2(Len(smiles), Len(ids)) THEN <<>>
    ELSE LET smi == Strip(PyStr(smiles[k]))
             rid == NormalizeId(ids[k])
         IN  IF Keep(smi, rid)
             THEN <<Emit(JStr(smi), rid, JNull, ids[k])>>
                  \o ArrayHits(smiles, ids, k + 1)
             ELSE ArrayHits(smiles, ids, k + 1)

IsNeighborsShape(pl) == pl.t = "dict" /\ Get(pl.d, "neighbors").t = "list"

IsArraysShape(pl) ==
    pl.t = "dict" /\ Get(pl.d, "smiles").t = "list" /\ Get(pl.d, "id").t = "list"

\* parse_hits raises on a dict neighbor whose smiles is no string.
ParseRaises(pl) ==
    /\ IsNeighborsShape(pl)
    /\ \E k \in 1..Len(pl.d["neighbors"].l) :
         LET nb == pl.d["neighbors"].l[k] IN nb.t = "dict" /\ NeighborRaises(nb.d)

parse_hits(pl) ==
    IF IsNeighborsShape(pl) THEN NeighborHits(pl.d["neighbors"].l)
    ELSE IF IsArraysShape(pl) THEN ArrayHits(pl.d["smiles"].l, pl.d["id"].l, 1)
    ELSE <<>>

(* ------------- iter_results_paged (single-query client) ---------------- *)
\* page.get(key, []) or []
PageList(page, key) ==
    LET v == Or(Get(page, key), JList(<<>>)) IN IF v.t = "list" THEN v.l ELSE <<>>

\* The for loop over one page without its test of len(out) >= total_needed.
RECURSIVE MutPageEntriesNoBreak(_, _, _, _, _, _, _)
MutPageEntriesNoBreak(out, smiles, ids, sims, k, cnt, total) ==
    IF k > cnt THEN out
    ELSE IF ids[k] = JStr(Sentinel)
         THEN MutPageEntriesNoBreak(out, smiles, ids, sims, k + 1, cnt, total)
    ELSE MutPageEntriesNoBreak(
             Append(out, Emit(smiles[k], NormalizeId(ids[k]), ToFloat(sims[k]), ids[k])),
             smiles, ids, sims, k + 1, cnt, total)

\* The for loop over one page: the sentinel is skipped, every other entry is
\* appended, and the loop ends as soon as out holds total hits.
RECURSIVE PageEntries(_, _, _, _, _, _, _)
PageEntries(out, smiles, ids, sims, k, cnt, total) ==
    IF k > cnt THEN out
    ELSE IF ids[k] = JStr(Sentinel)
         THEN PageEntries(out, smiles, ids, sims, k + 1, cnt, total)
    ELSE LET out2 == Append(out, Emit(smiles[k], NormalizeId(ids[k]),
                                         ToFloat(sims[k]), ids[k]))
         IN  IF Len(out2) >= total THEN out2
             ELSE PageEntries(out2, smiles, ids, sims, k + 1, cnt, total)

\* The number of sentinel identifiers among the first cnt entries.
SelfHits(ids, cnt) == Cardinality({k \in 1..cnt : ids[k] = JStr(Sentinel)})

\* n = min(len(smiles_list), len(id_list), len(sim_list))
PageCount(page) ==
    Min2(Len(PageList(page, "smiles")),
         Min2(Len(PageList(page, "id")), Len(PageList(page, "similarity"))))

(* -------------------- the normalizers at work -------------------------- *)
\* The pieces raw identifiers are built of.
Chunks == {<<" ">>, <<"Z">>, Suffix, Sentinel}

RECURSIVE Strings(_)
Strings(k) ==
    IF k = 0 THEN {<<>>}
    ELSE LET S == Strings(k - 1) IN S \cup {s \o c : s \in S, c \in Chunks}

RawIds == {JStr(s) : s \in Strings(MaxChunks)} \cup {JNull}

SmilesVals == {JStr(<<"C">>), JStr(<<" ">>), JNull, JNum(1)}

SimVals == {JNum(1), JNull}

Filler == [smiles |-> JStr(<<"C">>), id |-> JStr(<<"Z">>), sim |-> JNum(1)]

FocusEntries == [smiles : SmilesVals, id : RawIds, sim : SimVals]

\* Lists of entries: one entry drawn from FocusEntries at any position, the
\* others plain.
EntryLists ==
    {<<>>} \cup
    UNION {{[k \in 1..len |-> IF k = pos THEN f ELSE Filler] :
              pos \in 1..len, f \in FocusEntries} : len \in 1..MaxEntries}

Column(es, field) == JList([k \in 1..Len(es) |-> es[k][field]])

IdKeys == {"zinc_id", "id", "name", "identifier"}

NeighborOf(e, key) ==
    JDict(("smiles" :> e.smiles) @@ (key :> e.id) @@ ("similarity" :> e.sim))

\* Neighbors that carry score fields: any of a similarity (null or a number)
\* and a distance at top level, and nested objects with scores of their own.
ScoreKeys == {"similarity", "distance", "metrics", "meta"}

MetricsVals ==
    {JDict("tanimoto" :> JNum(3)), JDict("dist" :> JNum(4)),
     JDict(("tanimoto" :> JNum(3)) @@ ("dist" :> JNum(4))), JStr(<<"Z">>)}

MetaVals == {JDict("cos_sim" :> JNum(5)), JDict("distance" :> JNum(6))}

ScoreNeighbors ==
    {JDict([k \in ({"smiles", "id"} \cup K) |->
               CASE k = "smiles"     -> JStr(<<"C">>)
                 [] k = "id"         -> JStr(<<"Z">>)
                 [] k = "similarity" -> sim
                 [] k = "distance"   -> JNum(2)
                 [] k = "metrics"    -> metrics
                 [] k = "meta"       -> meta]) :
        K \in SUBSET ScoreKeys, sim \in SimVals, metrics \in MetricsVals,
        meta \in MetaVals}

NeighborPayloads ==
    {JDict("neighbors" :> JList([k \in 1..Len(es) |-> NeighborOf(es[k], key)])) :
        es \in EntryLists, key \in IdKeys}
    \cup {JDict("neighbors" :> JList(<<nb>>)) : nb \in ScoreNeighbors}

\* The two arrays may differ in length.
ArrayPayloads ==
    UNION {{JDict(("smiles" :> JList(Prefix(Column(es, "smiles").l, a))) @@
                  ("id" :> JList(Prefix(Column(es, "id").l, b)))) :
               a \in 0..Len(es), b \in 0..Len(es)} : es \in EntryLists}

PageOf(sm, ids, sims) == ("smiles" :> sm) @@ ("id" :> ids) @@ ("similarity" :> sims)

Plain(len) == [k \in 1..len |-> Filler]

\* A self-hit entry: the identifier is the sentinel.
SelfEntry == [smiles |-> JStr(<<"C">>), id |-> JStr(Sentinel), sim |-> JNum(1)]

SelfOnly(len) == [k \in 1..len |-> SelfEntry]

\* The pages the service may answer: on page 0 any list of entries; on every
\* page plain entries, the three arrays of any lengths, self-hits only, or
\* molecules and identifiers without the similarity array.
PagesAt(pn) ==
    (IF pn = 0
     THEN {PageOf(Column(es, "smiles"), Column(es, "id"), Column(es, "sim")) :
              es \in EntryLists}
     ELSE {}) \cup
    {PageOf(Column(SelfOnly(a), "smiles"), Column(SelfOnly(a), "id"),
            Column(SelfOnly(a), "sim")) : a \in 1..MaxEntries} \cup
    {PageOf(Column(Plain(a), "smiles"), Column(Plain(b), "id"), Column(Plain(c), "sim")) :
        a \in 0..MaxEntries, b \in 0..MaxEntries, c \in 0..MaxEntries} \cup
    {("smiles" :> Column(Plain(a), "smiles")) @@ ("id" :> Column(Plain(a), "id")) :
        a \in 1..MaxEntries}

InitParse ==
    /\ client = "single" /\ retries = 0 /\ batch_size = 1 /\ no_batch = FALSE
    /\ n = MaxHits
    /\ input = <<>>
    /\ NoRun
    /\ p_pc = "input"
    /\ p_shape \in {"neighbors", "arrays", "paged"}
    /\ payload \in (CASE p_shape = "neighbors" -> NeighborPayloads
                      [] p_shape = "arrays"    -> ArrayPayloads \cup {JNull}
                      [] p_shape = "paged"     -> {JNull})
    /\ p_out = <<>>
    /\ page_num = 0
    /\ total_needed \in (IF p_shape = "paged" THEN 0..(MaxEntries + 1) ELSE {0})
    /\ page_size \in (IF p_shape = "paged" THEN 1..MaxEntries ELSE {0})
    /\ page_log = <<>>
    /\ CallsIdle

pipeline == <<config, file, locals, runvars, history, item, pc>>

(* ------------------- load_processed_query_ids at work ------------------ *)
\* The lines output files are built of: the header, a header with the
\* query_id column elsewhere, a header without it, rows with a plain, a
\* padded and a blank id, a short row, an empty line, and a line of bytes
\* that are not UTF-8.
FileLines ==
    {Header, <<"hit_id", "query_id">>, <<"id", "smiles">>,
     <<"1", "S1", "C1", "Z1", "0.9">>, <<" 2 ", "S2", "C1", "Z1", "0.9">>,
     <<" ", "S1", "C1", "Z1", "0.9">>, <<"9">>, <<>>, Undecodable}

RECURSIVE Files(_)
Files(k) ==
    IF k = 0 THEN {<<>>}
    ELSE LET F == Files(k - 1) IN F \cup {Append(f, l) : f \in F, l \in FileLines}

InitLoad ==
    /\ client \in {"single", "bulk"} /\ retries = 0 /\ batch_size = 1 /\ no_batch = FALSE
    /\ n = MaxHits
    /\ input = <<>>
    /\ run = 0 /\ resume = FALSE /\ overwrite = FALSE
    /\ pc = "idle"
    /\ file_exists \in BOOLEAN
    /\ disk \in (IF file_exists THEN Files(MaxFileLines) ELSE {<<>>})
    /\ buf = <<>>
    /\ processed = {} /\ wrote_header = FALSE /\ items = <<>> /\ i = 0
    /\ batch = <<>> /\ j = 0 /\ attempt = 0 /\ last_err = "none" /\ hits = <<>>
    /\ runStart = 0 /\ startState = "absent" /\ allResume = TRUE /\ paced = TRUE
    /\ cycledPrev = {} /\ cycledNow = {} /\ skippedNow = {} /\ attemptedNow = {}
    /\ fetched = NoFetch
    /\ attempts = 0 /\ errKinds = {}
    /\ p_pc = "input" /\ p_shape = "load" /\ payload = JNull
    /\ p_out = <<>>
    /\ page_num = 0 /\ total_needed = 0 /\ page_size = 0
    /\ page_log = <<>>
    /\ CallsIdle

\* processed = load_processed_query_ids(args.out)
LoadProcessed ==
    /\ p_pc = "input" /\ p_shape = "load"
    /\ ~LoadRaises(file_exists, disk)
    /\ processed' = load_processed_query_ids(file_exists, disk)
    /\ p_pc' = "loaded"
    /\ UNCHANGED <<config, file, runvars, history, item, pc, wrote_header, items, i, batch,
                   j, attempt, last_err, hits, p_shape, payload, p_out, page_num,
                   total_needed, page_size, page_log, calls>>

\* The exception of the read leaves load_processed_query_ids.
LoadFails ==
    /\ p_pc = "input" /\ p_shape = "load"
    /\ LoadRaises(file_exists, disk)
    /\ p_pc' = "raised"
    /\ UNCHANGED <<pipeline, p_shape, payload, p_out, page_num, total_needed, page_size,
                   page_log, calls>>

NextLoad ==
    \/ LoadProcessed
    \/ LoadFails

SpecLoad == InitLoad /\ [][NextLoad]_vars

(* -------------------- submit_synthongpt_job at work -------------------- *)
\* A JSON object, its members in their order.
JObj(pairs) == [t |-> "obj", pairs |-> pairs]

\* A body that is no JSON: r.json() raises and r.text is taken.
Text(s) == [t |-> "text", s |-> s]

\* The keys a handle is looked for under, with id first.
MutKnownKeysIdFirst == <<"id", "job_name", "job_id", "job", "result">>

\* for key in ("job_name", "job_id", "id", "job", "result")
KnownKeys == <<"job_name", "job_id", "id", "job", "result">>

\* isinstance(v, str) and v
IsHandle(v) == v.t = "str" /\ v.s # ""

\* js.get(key)
ObjGet(pairs, key) ==
    LET at == {k \in 1..Len(pairs) : pairs[k][1] = key}
    IN  IF at = {} THEN JNull
        ELSE pairs[CHOOSE k \in at : \A e \in at : e <= k][2]

\* r.raise_for_status() raises for the status codes 400..599.
StatusRaises(status) == status >= 400 /\ status < 600

\* try: js = r.json()  except Exception: js = r.text.strip()
Parsed(body) == IF body.t = "text" THEN JStr(Strip(body.s)) ELSE body

\* The handle the function returns for js, "" when it finds none.
HandleOf(js) ==
    IF IsHandle(js) THEN js.s
    ELSE IF js.t = "obj"
    THEN LET known == {c \in 1..Len(KnownKeys) : IsHandle(ObjGet(js.pairs, KnownKeys[c]))}
             any   == {k \in 1..Len(js.pairs) : IsHandle(js.pairs[k][2])}
         IN  IF known # {}
             THEN ObjGet(js.pairs, KnownKeys[CHOOSE c \in known : \A e \in known : c <= e]).s
             ELSE IF any # {}
             THEN js.pairs[CHOOSE k \in any : \A e \in any : k <= e][2].s
             ELSE ""
    ELSE ""

\* The responses of the service.
Statuses == {200, 304, 401, 500}

MemberKeys == Range(KnownKeys) \cup {"x"}

MemberVals == {JStr("A"), JStr("B"), JStr(""), JNull, JNum(1)}

RECURSIVE Members(_)
Members(k) ==
    IF k = 0 THEN {<<>>}
    ELSE LET M == Members(k - 1)
         IN  M \cup {Append(m, <<key, v>>) :
                        m \in M, key \in MemberKeys, v \in MemberVals}

DistinctKeys(m) == \A a, b \in 1..Len(m) : a # b => m[a][1] # m[b][1]

Bodies ==
    {Text(""), Text(" "), Text(" A "), Text("<html>")}
    \cup {JStr("A"), JStr(""), JNull, JNum(1), JList(<<JStr("A")>>)}
    \cup {JObj(m) : m \in {x \in Members(MaxMembers) : DistinctKeys(x)}}

InitSubmit ==
    /\ client = "single" /\ retries = 0 /\ batch_size = 1 /\ no_batch = FALSE
    /\ n = MaxHits
    /\ input = <<>>
    /\ NoRun
    /\ p_pc = "input" /\ p_shape = "submit" /\ payload = JNull
    /\ p_out = <<>>
    /\ page_num = 0 /\ total_needed = 0 /\ page_size = 0
    /\ page_log = <<>>
    /\ response \in [status : Statuses, body : Bodies]
    /\ job_name = "" /\ raised = NoError
    /\ poll_sec = 0 /\ max_wait_sec = 0 /\ w_attempt = 0 /\ elapsed = 0
    /\ probes = <<>>

\* submit_synthongpt_job returns a handle.
SubmitReturns ==
    /\ p_pc = "input" /\ p_shape = "submit"
    /\ ~StatusRaises(response.status)
    /\ HandleOf(Parsed(response.body)) # ""
    /\ job_name' = HandleOf(Parsed(response.body))
    /\ p_pc' = "returned"
    /\ UNCHANGED <<pipeline, p_shape, payload, p_out, page_num, total_needed, page_size,
                   page_log, response, raised, poll_sec, max_wait_sec, w_attempt, elapsed,
                   probes>>

\* submit_synthongpt_job raises: requests.HTTPError of the status, or
\* RuntimeError(f"Unexpected submit response shape: {js!r}").
SubmitFails ==
    /\ p_pc = "input" /\ p_shape = "submit"
    /\ \/ /\ StatusRaises(response.status)
          /\ raised' = [kind |-> "HTTPError", status |-> response.status]
       \/ /\ ~StatusRaises(response.status)
          /\ HandleOf(Parsed(response.body)) = ""
          /\ raised' = [kind |-> "RuntimeError", js |-> Parsed(response.body)]
    /\ p_pc' = "raised"
    /\ UNCHANGED <<pipeline, p_shape, payload, p_out, page_num, total_needed, page_size,
                   page_log, response, job_name, poll_sec, max_wait_sec, w_attempt, elapsed,
                   probes>>

NextSubmit ==
    \/ SubmitReturns
    \/ SubmitFails

SpecSubmit == InitSubmit /\ [][NextSubmit]_vars

(* ----------------- wait_until_results_available at work ---------------- *)
\* Time is counted in ticks of 1/20 s: the 0.15 of the backoff is three
\* ticks, and elapsed is time.time() - start.
Ticks == 20

\* min(10.0, ...), in ticks
SleepCap == 200

\* min(attempt, 20)
AttemptCap == 20

\* sleep_t = min(10.0, poll_sec * (1.0 + 0.15 * min(attempt, 20))), in ticks
sleep_t(poll, att) == Min2(SleepCap, poll * (Ticks + 3 * Min2(att, AttemptCap)))

\* time.time() - start >= max_wait_sec
MutTimedOutAtLimit(e, max_wait) == e >= Ticks * max_wait

\* time.time() - start > max_wait_sec
TimedOut(e, max_wait) == e > Ticks * max_wait

\* The status codes that fail fast, without 422.
MutAuthCodesNo422 == {401, 403}

\* if code in (401, 403, 422): raise
AuthCodes == {401, 403, 422}

\* What get_molsearch_page meets: a page 0 of the service, an HTTP status
\* that _raise_for_status_with_hint raises for, or another exception
\* (no connection, a timeout, a body that is no JSON).
PageZeros ==
    { JDict("id" :> JList(<<JStr(<<"1">>)>>)),
      JDict("id" :> JList(<<>>)),
      JDict("id" :> JNull),
      JDict("id" :> JStr(<<"1">>)),
      JDict("smiles" :> JList(<<JStr(<<"C">>)>>)),
      JList(<<JStr(<<"1">>)>>) }

Answers ==
    {[kind |-> "page", code |-> 200, page |-> pg] : pg \in PageZeros}
    \cup {[kind |-> "http", code |-> c, page |-> JNull] : c \in {401, 403, 422, 500}}
    \cup {[kind |-> "error", code |-> 0, page |-> JNull]}

\* ids = page0.get("id", []) or []; isinstance(ids, list) and len(ids) > 0
PageReady(page0) ==
    LET ids == Or(Get(page0.d, "id"), JList(<<>>))
    IN  ids.t = "list" /\ Len(ids.l) > 0

\* The number of identifiers page 0 holds.
IdCount(page0) ==
    IF page0.t = "dict" /\ Get(page0.d, "id").t = "list" THEN Len(Get(page0.d, "id").l)
    ELSE 0

\* What the loop makes of a probe: "ready" returns, "auth" raises, "empty"
\* (a page without identifiers), "http" (another status) and "error"
\* (another exception, page0.get of a page that is no object included) go
\* on to the check of the time.
Outcome(a) ==
    CASE a.kind = "page" /\ a.page.t # "dict" -> "error"
      [] a.kind = "page" /\ a.page.t = "dict" ->
            IF PageReady(a.page) THEN "ready" ELSE "empty"
      [] a.kind = "http" -> IF a.code \in AuthCodes THEN "auth" ELSE "http"
      [] a.kind = "error" -> "error"

\* The time a probe takes, in ticks: time advances with every probe.
ProbeTicks == {10, 20}

InitWait ==
    /\ client = "single" /\ retries = 0 /\ batch_size = 1 /\ no_batch = FALSE
    /\ n = MaxHits
    /\ input = <<>>
    /\ NoRun
    /\ p_pc = "probe" /\ p_shape = "wait" /\ payload = JNull
    /\ p_out = <<>>
    /\ page_num = 0 /\ total_needed = 0 /\ page_size = 0
    /\ page_log = <<>>
    /\ response = NoResponse
    /\ job_name = "A" /\ raised = NoError
    /\ poll_sec \in {0, 1, 10}
    /\ max_wait_sec \in 0..MaxWait
    /\ w_attempt = 0 /\ elapsed = 0
    /\ probes = <<>>

\* attempt += 1 and the call of get_molsearch_page, met by answer a after
\* dt ticks; probes keeps what each probe met: a page, an HTTP status or
\* another exception, and the number of identifiers of the page, with the
\* job_name and the page_num (0) of the request.
Probe(a, dt) ==
    /\ p_pc = "probe" /\ p_shape = "wait"
    /\ w_attempt' = w_attempt + 1
    /\ elapsed' = elapsed + dt
    /\ probes' = Append(probes, [kind |-> a.kind, code |-> a.code, ids |-> IdCount(a.page),
                                 job |-> job_name, num |-> 0])
    /\ UNCHANGED <<pipeline, p_shape, payload, p_out, page_num, total_needed, page_size,
                   page_log, response, job_name, poll_sec, max_wait_sec>>

\* Page 0 holds an identifier: return.
ProbeReady ==
    \E a \in Answers, dt \in ProbeTicks :
        /\ Outcome(a) = "ready"
        /\ Probe(a, dt)
        /\ p_pc' = "returned"
        /\ UNCHANGED raised

\* except requests.HTTPError with code in (401, 403, 422): raise
ProbeRaises ==
    \E a \in Answers, dt \in ProbeTicks :
        /\ Outcome(a) = "auth"
        /\ Probe(a, dt)
        /\ raised' = [kind |-> "HTTPError", status |-> a.code]
        /\ p_pc' = "raised"

\* No identifier yet, or an exception that is swallowed.
ProbeNotReady ==
    \E a \in Answers, dt \in ProbeTicks :
        /\ Outcome(a) \in {"empty", "http", "error"}
        /\ Probe(a, dt)
        /\ p_pc' = "check"
        /\ UNCHANGED raised

\* if time.time() - start > max_wait_sec: raise TimeoutError(...)
WaitTimeout ==
    /\ p_pc = "check" /\ p_shape = "wait"
    /\ TimedOut(elapsed, max_wait_sec)
    /\ raised' = [kind |-> "TimeoutError", job |-> job_name, after |-> max_wait_sec]
    /\ p_pc' = "raised"
    /\ UNCHANGED <<pipeline, p_shape, payload, p_out, page_num, total_needed, page_size,
                   page_log, response, job_name, poll_sec, max_wait_sec, w_attempt, elapsed,
                   probes>>

\* time.sleep(sleep_t), and the loop goes round.
WaitSleep ==
    /\ p_pc = "check" /\ p_shape = "wait"
    /\ ~TimedOut(elapsed, max_wait_sec)
    /\ elapsed' = elapsed + sleep_t(poll_sec, w_attempt)
    /\ p_pc' = "probe"
    /\ UNCHANGED <<pipeline, p_shape, payload, p_out, page_num, total_needed, page_size,
                   page_log, response, job_name, raised, poll_sec, max_wait_sec, w_attempt,
                   probes>>

NextWait ==
    \/ ProbeReady
    \/ ProbeRaises
    \/ ProbeNotReady
    \/ WaitTimeout
    \/ WaitSleep

SpecWait == InitWait /\ [][NextWait]_vars

\* A call that has not returned or raised takes its next step.
FairSpecWait == SpecWait /\ WF_vars(NextWait)

\* parse_hits returns.
ParseHits ==
    /\ p_pc = "input" /\ p_shape \in {"neighbors", "arrays"}
    /\ ~ParseRaises(payload)
    /\ p_out' = parse_hits(payload)
    /\ p_pc' = "parsed"
    /\ UNCHANGED <<pipeline, p_shape, payload, page_num, total_needed, page_size, page_log, calls>>

\* parse_hits raises.
ParseHitsRaises ==
    /\ p_pc = "input" /\ p_shape \in {"neighbors", "arrays"}
    /\ ParseRaises(payload)
    /\ p_pc' = "raised"
    /\ UNCHANGED <<pipeline, p_shape, payload, p_out, page_num, total_needed, page_size, page_log, calls>>

\* iter_results_paged is called: out = [], page_num = 0, and the first test
\* of while len(out) < total_needed.
PagedStart ==
    /\ p_pc = "input" /\ p_shape = "paged"
    /\ p_pc' = IF Len(p_out) < total_needed THEN "paging" ELSE "done"
    /\ UNCHANGED <<pipeline, p_shape, payload, p_out, page_num, total_needed, page_size, page_log, calls>>

\* One turn of the while loop that leaves page_num as it is.
MutPagedFetchSamePage ==
    /\ p_pc = "paging" /\ page_num <= MaxPages
    /\ \E page \in PagesAt(page_num) :
         LET cnt == PageCount(page)
             out == IF cnt = 0 THEN p_out
                    ELSE PageEntries(p_out, PageList(page, "smiles"), PageList(page, "id"),
                                     PageList(page, "similarity"), 1, cnt, total_needed)
         IN  /\ payload' = JDict(page)
             /\ p_out' = out
             /\ page_log' = Append(page_log,
                                   [cnt |-> cnt, self |-> SelfHits(PageList(page, "id"), cnt),
                                    job |-> job_name, num |-> page_num])
             /\ page_num' = page_num
             /\ IF cnt = 0 \/ cnt < page_size
                THEN p_pc' = "done"
                ELSE p_pc' = IF Len(out) < total_needed THEN "paging" ELSE "done"
    /\ UNCHANGED <<pipeline, p_shape, total_needed, page_size, calls>>

\* One turn of the while loop: the page is fetched and its entries appended;
\* the loop ends on an empty page, on a short page, or when the next test of
\* len(out) < total_needed fails.
PagedFetch ==
    /\ p_pc = "paging" /\ page_num <= MaxPages
    /\ \E page \in PagesAt(page_num) :
         LET cnt == PageCount(page)
             out == IF cnt = 0 THEN p_out
                    ELSE PageEntries(p_out, PageList(page, "smiles"), PageList(page, "id"),
                                     PageList(page, "similarity"), 1, cnt, total_needed)
         IN  /\ payload' = JDict(page)
             /\ p_out' = out
             /\ page_log' = Append(page_log,
                                   [cnt |-> cnt, self |-> SelfHits(PageList(page, "id"), cnt),
                                    job |-> job_name, num |-> page_num])
             /\ IF cnt = 0 \/ cnt < page_size
                THEN p_pc' = "done" /\ page_num' = page_num
                ELSE /\ page_num' = page_num + 1
                     /\ p_pc' = IF Len(out) < total_needed THEN "paging" ELSE "done"
    /\ UNCHANGED <<pipeline, p_shape, total_needed, page_size, calls>>

\* get_molsearch_page raises: the exception leaves iter_results_paged.
PagedRaises ==
    /\ p_pc = "paging" /\ page_num <= MaxPages
    /\ p_pc' = "raised"
    /\ UNCHANGED <<pipeline, p_shape, payload, p_out, page_num, total_needed, page_size, page_log, calls>>

NextParse ==
    \/ ParseHits
    \/ ParseHitsRaises
    \/ PagedStart
    \/ PagedFetch
    \/ PagedRaises

SpecParse == InitParse /\ [][NextParse]_vars

(* ------- process_one_query at work, call by call, and its rows --------- *)
\* The answers to a submission: a bare handle, an object with the handle, a
\* body that is no JSON, an object without a string, a server error and an
\* authorization error.
QueryResponses ==
    { [status |-> 200, body |-> JStr("A")],
      [status |-> 200, body |-> JObj(<<<<"job_name", JStr("B")>>>>)],
      [status |-> 200, body |-> Text("<html>")],
      [status |-> 200, body |-> JObj(<<<<"x", JNum(1)>>>>)],
      [status |-> 500, body |-> JNull],
      [status |-> 401, body |-> JNull] }

\* The pages the paged fetch of a query is answered with: plain entries or
\* self-hits only, the three arrays of one length.
QueryPages ==
    {JDict(PageOf(Column(es, "smiles"), Column(es, "id"), Column(es, "sim"))) :
        es \in {Plain(a) : a \in 0..MaxEntries} \cup {SelfOnly(a) : a \in 1..MaxEntries}}

\* main() of the single-query client has opened a new file, written the
\* header and reached the first query of the input: process_one_query is
\* called and the submission is answered.
InitQuery ==
    /\ client = "single" /\ retries = 0 /\ batch_size = 1 /\ no_batch = FALSE
    /\ n = MaxHits
    /\ input \in {Prefix(InputItems, k) : k \in 1..MaxQueries}
    /\ run = 1 /\ resume = FALSE /\ overwrite = FALSE
    /\ pc = "loop"
    /\ file_exists = TRUE /\ disk = <<>> /\ buf = <<Header>>
    /\ processed = {} /\ wrote_header = TRUE /\ items = input /\ i = 1
    /\ batch = <<>> /\ j = 0 /\ attempt = 0 /\ last_err = "none" /\ hits = <<>>
    /\ runStart = 0 /\ startState = "absent" /\ allResume = FALSE /\ paced = TRUE
    /\ cycledPrev = {} /\ cycledNow = {} /\ skippedNow = {} /\ attemptedNow = {}
    /\ fetched = NoFetch
    /\ attempts = 0 /\ errKinds = {}
    /\ p_pc = "input" /\ p_shape = "submit" /\ payload = JNull
    /\ p_out = <<>>
    /\ page_num = 0 /\ total_needed = 0
    /\ page_size \in 1..MaxEntries
    /\ page_log = <<>>
    /\ response \in QueryResponses
    /\ job_name = "" /\ raised = NoError
    /\ poll_sec = 0
    /\ max_wait_sec \in {0, 1}
    /\ w_attempt = 0 /\ elapsed = 0
    /\ probes = <<>>

\* The submission has returned and iter_results_paged is called at once,
\* without the wait.
MutQueryWaitSkipped ==
    /\ p_shape = "submit" /\ p_pc = "returned"
    /\ p_shape' = "paged" /\ p_pc' = "input"
    /\ total_needed' = n
    /\ UNCHANGED <<pipeline, payload, p_out, page_num, page_size, page_log, calls>>

\* job_name = submit_synthongpt_job(...) has returned:
\* wait_until_results_available(job_name=job_name, ...) is called.
QueryWait ==
    /\ p_shape = "submit" /\ p_pc = "returned"
    /\ p_shape' = "wait" /\ p_pc' = "probe"
    /\ UNCHANGED <<pipeline, payload, p_out, page_num, total_needed, page_size, page_log,
                   calls>>

\* The wait has returned: iter_results_paged(job_name=job_name,
\* total_needed=n, ...) is called.
QueryFetch ==
    /\ p_shape = "wait" /\ p_pc = "returned"
    /\ p_shape' = "paged" /\ p_pc' = "input"
    /\ total_needed' = n
    /\ UNCHANGED <<pipeline, payload, p_out, page_num, page_size, page_log, calls>>

\* One page of the job is fetched.
QueryPage == PagedFetch /\ payload' \in QueryPages

\* The row main() writes for a hit (hit_smiles, hit_id, sim).
QueryRows(it, out) ==
    [k \in 1..Len(out) |-> <<it[1], it[2], PyStr(out[k].hit[1]), out[k].hit[2], out[k].hit[3]>>]

\* process_one_query returns the rows of iter_results_paged; main() writes
\* a row for each hit, flushes, adds the query to processed and goes on.
QueryWritten ==
    /\ p_shape = "paged" /\ p_pc = "done"
    /\ disk' = disk \o buf \o QueryRows(Cur, p_out)
    /\ buf' = <<>>
    /\ processed' = processed \cup {Cur[1]}
    /\ i' = i + 1
    /\ paced' = FALSE
    /\ p_pc' = "written"
    /\ UNCHANGED <<config, started, history, item, pc, file_exists, wrote_header, items,
                   batch, j, attempt, last_err, hits, p_shape, payload, p_out, page_num,
                   total_needed, page_size, page_log, calls>>

\* The exception of a query with the rows fetched before it written out.
MutQueryFailedKeepsRows ==
    /\ p_shape \in {"submit", "wait", "paged"} /\ p_pc = "raised"
    /\ buf' = buf \o QueryRows(Cur, p_out)
    /\ i' = i + 1
    /\ paced' = FALSE
    /\ p_pc' = "failed"
    /\ UNCHANGED <<config, started, history, item, pc, file_exists, disk, processed,
                   wrote_header, items, batch, j, attempt, last_err, hits, p_shape, payload,
                   p_out, page_num, total_needed, page_size, page_log, calls>>

\* An exception has left submit_synthongpt_job, the wait or a page fetch,
\* and with it process_one_query: except Exception: print [ERROR]; continue
QueryFailedAt ==
    /\ p_shape \in {"submit", "wait", "paged"} /\ p_pc = "raised"
    /\ i' = i + 1
    /\ paced' = FALSE
    /\ p_pc' = "failed"
    /\ UNCHANGED <<config, started, history, item, pc, file, processed, wrote_header, items,
                   batch, j, attempt, last_err, hits, p_shape, payload, p_out, page_num,
                   total_needed, page_size, page_log, calls>>

\* The loop of main() reaches the next query: process_one_query is called
\* and the submission is answered.
QueryNext ==
    /\ p_shape \in {"submit", "wait", "paged"} /\ p_pc \in {"written", "failed"}
    /\ HaveQuery
    /\ response' \in QueryResponses
    /\ job_name' = "" /\ raised' = NoError
    /\ w_attempt' = 0 /\ elapsed' = 0 /\ probes' = <<>>
    /\ p_shape' = "submit" /\ p_pc' = "input" /\ payload' = JNull
    /\ p_out' = <<>>
    /\ page_num' = 0 /\ total_needed' = 0 /\ page_log' = <<>>
    /\ UNCHANGED <<pipeline, page_size, poll_sec, max_wait_sec>>

NextQuery ==
    \/ SubmitReturns
    \/ SubmitFails
    \/ QueryWait
    \/ ProbeReady
    \/ ProbeRaises
    \/ ProbeNotReady
    \/ WaitTimeout
    \/ WaitSleep
    \/ QueryFetch
    \/ PagedStart
    \/ QueryPage
    \/ PagedRaises
    \/ QueryWritten
    \/ QueryFailedAt
    \/ QueryNext

SpecQuery == InitQuery /\ [][NextQuery]_vars

(* ------------------- properties of the runs (Spec) --------------------- *)
InRun == pc \notin {"idle", "done", "crashed"}

\* The lines the current run appended to the file.
Appended == SubSeq(Content, runStart + 1, Len(Content))

DataRowsOf(q, lines) == SelectSeq(lines, LAMBDA l : l # Header /\ l[1] = q)

HeaderCount(lines) == Len(SelectSeq(lines, LAMBDA l : l = Header))

NoRepeatedLine(lines) ==
    \A a, b \in 1..Len(lines) : a < b => lines[a] # lines[b]

\* The lines of one query id are next to each other.
Contiguous(lines) ==
    \A a, c \in 1..Len(lines) :
        (a < c /\ lines[a][1] = lines[c][1]) =>
            \A b \in a..c : lines[b][1] = lines[a][1]

ItemOf(q) == CHOOSE it \in Range(InputItems) : it[1] = q

\* Every hit row of the last answer written for q is in the stored file.
CompleteRows(q) ==
    /\ fetched[q] >= 0
    /\ Range(RowsFor(ItemOf(q), Hits(fetched[q]))) \subseteq Range(disk)

\* The query id a single-query run has submitted a job for and is working on.
InFlight == client = "single" /\ pc \in {"wait", "fetch", "write", "flush", "failed"}

\* The query or batch has been given up: the except clause of the
\* single-query client, the end of the retry loop with last_err set.
Abandoned ==
    \/ client = "single" /\ pc = "failed"
    \/ client = "bulk" /\ pc = "after" /\ last_err # "none"

\* C1: when every run had --resume on the same input and output, a run
\* appends no row for a query id an earlier run processed, and the output
\* holds no two groups of rows for one query id (the rows of an id are
\* contiguous and none is repeated).
C1_ResumeIdempotent ==
    (InRun /\ allResume) =>
        /\ \A q \in cycledPrev : DataRowsOf(q, Appended) = <<>>
        /\ Contiguous(Content)
        /\ NoRepeatedLine(Content)

\* C2: a query that completed a full cycle in an earlier run (also with no
\* hit row) is never submitted again by a run with --resume.
C2_CycledNeverResubmitted ==
    (InFlight /\ resume) => Cur[1] \notin cycledPrev

\* C3: in the bulk client no hit row of a query is appended twice by the
\* attempts of the retry loop of its batch.
C3_NoRowTwice ==
    (InRun /\ client = "bulk") => NoRepeatedLine(Appended)

\* C4: every query id a resumed run skips has the complete set of its hit
\* rows in the output, whatever crash ended the earlier run.
C4_SkippedAreComplete ==
    (InRun /\ resume) => \A q \in skippedNow : CompleteRows(q)

\* C5: a run that finds no output file writes exactly one header row,
\* whatever the number of queries; a run with --resume that finds a
\* non-empty output file writes no header row.
C5_HeaderDiscipline ==
    InRun =>
        /\ (startState = "absent") => HeaderCount(Appended) = 1
        /\ (startState = "nonempty" /\ resume) => HeaderCount(Appended) = 0

C5_Witness ==
    /\ InRun /\ run = 2 /\ resume /\ startState = "nonempty"
    /\ \E q \in Qids : DataRowsOf(q, Appended) # <<>>

\* C6: whenever the stored file holds a data row its first line is the
\* header row, also when the run found an existing empty file.
C6_HeaderFirst ==
    (\E k \in 1..Len(disk) : disk[k] # Header) => disk[1] = Header

\* C7: a query or batch whose every attempt raised a transient error has
\* been attempted exactly retries + 1 times when it is abandoned.
C7_TransientAttempts ==
    (Abandoned /\ errKinds = {"transient"}) => attempts = retries + 1

\* C8: a query or batch whose remote call failed with an authorization or
\* validation error (and with no other error) is attempted exactly once.
C8_AuthAttemptedOnce ==
    (errKinds = {"auth"}) => attempts = 1

(* --------------- properties of the normalizers (SpecParse) ------------- *)
HitId(e) == e.hit[2]

\* The trimmed identifier without its trailing -DMCH, nothing else changed.
TrailingSuffixRemoved(s) ==
    IF EndsWith(s, Suffix) THEN SubSeq(s, 1, Len(s) - Len(Suffix)) ELSE s

\* C9: no emitted hit has the identifier "Query Molecule" after trimming
\* and -DMCH removal, and no emitted hit comes from an entry whose raw
\* identifier is the sentinel, in parse_hits (both shapes) and in
\* iter_results_paged.
C9_NoSentinelHit ==
    \A k \in 1..Len(p_out) :
        HitId(p_out[k]) # Sentinel /\ p_out[k].raw # JStr(Sentinel)

\* C10: every emitted hit_id is the trimmed raw identifier with its
\* trailing -DMCH removed and nothing else changed.
C10_TrailingSuffixOnly ==
    \A k \in 1..Len(p_out) :
        HitId(p_out[k]) = TrailingSuffixRemoved(Strip(PyStr(p_out[k].raw)))

(* ------------------ properties of the paging (SpecParse) --------------- *)
\* The aligned entries of the first k pages fetched.
RECURSIVE Aligned(_, _)
Aligned(log, k) == IF k = 0 THEN 0 ELSE Aligned(log, k - 1) + log[k].cnt

\* The aligned entries of the first k pages fetched that are no self-hit.
RECURSIVE Usable(_, _)
Usable(log, k) ==
    IF k = 0 THEN 0 ELSE Usable(log, k - 1) + (log[k].cnt - log[k].self)

Pages == Len(page_log)

\* The loop has ended for a reason the code has: nothing was asked, or the
\* last page was short or empty, or out holds total_needed records.
StoppedRightly ==
    IF total_needed = 0 THEN page_log = <<>>
    ELSE /\ page_log # <<>>
         /\ \/ page_log[Pages].cnt < page_size
            \/ Len(p_out) = total_needed

\* C11: iter_results_paged emits at most total_needed records, truncating
\* inside a page; no page is fetched after a short or empty page or after
\* the records asked for are there; the records emitted are the smaller of
\* total_needed and the aligned entries fetched that are no self-hit.
C11_Paging ==
    (p_shape = "paged") =>
        /\ Len(p_out) = Min2(total_needed, Usable(page_log, Pages))
        /\ \A k \in 1..(Pages - 1) :
               page_log[k].cnt >= page_size /\ Usable(page_log, k) < total_needed
        /\ (p_pc = "done") => StoppedRightly

\* Three full pages of one entry were fetched for three records.
C11_Witness ==
    /\ p_shape = "paged" /\ p_pc = "done"
    /\ Pages = 3 /\ total_needed = 3 /\ Len(p_out) = 3

\* C11 as stated: the records emitted are the smaller of total_needed and
\* the aligned entries fetched (250 of two full pages of 100 and a third
\* page of at least 50; 180 of a page of 100 and a page of 80), and no page
\* is fetched once the aligned entries fetched reach total_needed.
C11_AsStated ==
    (p_shape = "paged") =>
        /\ Len(p_out) = Min2(total_needed, Aligned(page_log, Pages))
        /\ \A k \in 1..(Pages - 1) :
               page_log[k].cnt >= page_size /\ Aligned(page_log, k) < total_needed
        /\ (p_pc = "done") => StoppedRightly

\* C12: iter_results_paged ends after finitely many page requests whatever
\* the pages are: the loop runs while len(out) < total_needed, so every
\* page fetched that does not end the loop has added a record.
C12_FiniteRequests ==
    (p_shape = "paged" /\ p_pc = "paging") => Pages <= Len(p_out)

(* --------------- properties of parse_hits (SpecParse) ------------------ *)
\* The payload has no neighbors list and has the two parallel arrays.
ArraysOnly == p_shape = "arrays" /\ IsArraysShape(payload) /\ ~IsNeighborsShape(payload)

\* The positions both arrays have whose entry is not excluded: the trimmed
\* smiles and the normalized identifier are not empty, and the identifier
\* is not the sentinel.
KeptPositions(sm, ids) ==
    SelectSeq([k \in 1..Min2(Len(sm), Len(ids)) |-> k],
              LAMBDA k : /\ Strip(PyStr(sm[k])) # <<>>
                         /\ NormalizeId(ids[k]) \notin {<<>>, Sentinel})

\* C13: for a payload with no neighbors list and parallel smiles and id
\* arrays parse_hits yields one hit per aligned position that is not
\* excluded, in the order of the positions, each with no similarity.
C13_ArraysFallback ==
    (ArraysOnly /\ p_pc = "parsed") =>
        LET sm   == payload.d["smiles"].l
            ids  == payload.d["id"].l
            kept == KeptPositions(sm, ids)
        IN  /\ Len(p_out) = Len(kept)
            /\ \A m \in 1..Len(kept) :
                   /\ p_out[m].raw = ids[kept[m]]
                   /\ p_out[m].hit[1] = JStr(Strip(PyStr(sm[kept[m]])))
                   /\ p_out[m].hit[3] = JNull

\* Two smiles and two identifiers gave exactly two hits with no similarity.
C13_Witness ==
    /\ ArraysOnly /\ p_pc = "parsed"
    /\ Len(payload.d["smiles"].l) = 2 /\ Len(payload.d["id"].l) = 2
    /\ Len(p_out) = 2
    /\ p_out[1].hit[3] = JNull /\ p_out[2].hit[3] = JNull

\* The similarity-like and the distance-like keys of pick_score.
SimilarityLike == {Candidates[c] : c \in 1..18}

DistanceLike == {Candidates[c] : c \in 19..Len(Candidates)}

\* The values that are not null a dict holds under the keys ks.
ValuesUnder(d, ks) == {d[k] : k \in {x \in DOMAIN d \cap ks : d[x] # JNull}}

\* The same, at top level and inside the nested metrics/meta/metadata objects.
ValuesAnywhere(nb, ks) ==
    ValuesUnder(nb, ks) \cup
    UNION {ValuesUnder(nb[k].d, ks) :
              k \in {x \in DOMAIN nb \cap Range(NestedKeys) : nb[x].t = "dict"}}

\* C14: the score of a neighbor that carries a similarity-like field that
\* is not null, at top level or in a nested object, is the value of such a
\* field: a distance-like field gives the score only when there is none.
C14_SimilarityFirst ==
    (p_shape = "neighbors" /\ p_pc = "parsed"
        /\ Len(payload.d["neighbors"].l) = 1 /\ Len(p_out) = 1) =>
        LET nb   == payload.d["neighbors"].l[1].d
            sims == ValuesAnywhere(nb, SimilarityLike)
        IN  sims # {} => p_out[1].hit[3] \in {ToFloat(v) : v \in sims}

(* ---------------- properties of the runs (FairSpec) -------------------- *)
\* The exploration stops here: the file has no room for the rows to write.
Cut == client = "single" /\ pc = "write" /\ ~Room(Len(hits))

InputIds == {input[k][1] : k \in 1..Len(input)}

HasIdColumn == file_exists /\ disk # <<>> /\ \E c \in 1..Len(disk[1]) : disk[1][c] = "query_id"

\* q is the trimmed value, not empty, of the query_id column of a line
\* after the first.
StoredId(q) ==
    /\ q # ""
    /\ \E r \in 2..Len(disk), c \in 1..Len(disk[1]) :
          /\ disk[1][c] = "query_id"
          /\ c <= Len(disk[r])
          /\ Strip(disk[r][c]) = q

\* The ids a file of FileLines can hold.
StoredIds == UNION {{Strip(l[c]) : c \in 1..Len(l)} : l \in FileLines}

\* C16: load_processed_query_ids never raises; it returns the empty set
\* for a file that is absent or has no first line naming the query_id
\* column, and otherwise exactly the trimmed values, not empty, of that
\* column.
C16_LoadNeverRaises ==
    (p_shape = "load") =>
        /\ p_pc # "raised"
        /\ (p_pc = "loaded") =>
               /\ ~HasIdColumn => processed = {}
               /\ HasIdColumn =>
                      /\ processed \subseteq StoredIds
                      /\ \A q \in StoredIds : q \in processed <=> StoredId(q)

(* ------------- properties of the submission (SpecSubmit) --------------- *)
\* The submission got a response that is no HTTP error, with a JSON body.
JsonAnswer ==
    p_shape = "submit" /\ ~StatusRaises(response.status) /\ response.body.t # "text"

\* The value of member key of the object when it is a string, not empty.
MemberHandle(key) ==
    {response.body.pairs[k][2].s :
        k \in {x \in 1..Len(response.body.pairs) :
                  /\ response.body.pairs[x][1] = key
                  /\ response.body.pairs[x][2].t = "str"
                  /\ response.body.pairs[x][2].s # ""}}

\* The handle C17 names for a JSON object: of job_name, else of job_id,
\* else of id, else of job, else of result, else the first string, not
\* empty, among the values.
ExpectedOfObject ==
    IF MemberHandle("job_name") # {} THEN MemberHandle("job_name")
    ELSE IF MemberHandle("job_id") # {} THEN MemberHandle("job_id")
    ELSE IF MemberHandle("id") # {} THEN MemberHandle("id")
    ELSE IF MemberHandle("job") # {} THEN MemberHandle("job")
    ELSE IF MemberHandle("result") # {} THEN MemberHandle("result")
    ELSE LET strs == {k \in 1..Len(response.body.pairs) :
                        /\ response.body.pairs[k][2].t = "str"
                        /\ response.body.pairs[k][2].s # ""}
         IN  {response.body.pairs[k][2].s : k \in {x \in strs : \A e \in strs : x <= e}}

ExpectedHandle ==
    IF response.body.t = "str" /\ response.body.s # "" THEN {response.body.s}
    ELSE IF response.body.t = "obj" THEN ExpectedOfObject
    ELSE {}

\* C17: submit_synthongpt_job returns a bare string that is not empty;
\* else the first string, not empty, under job_name, job_id, id, job,
\* result in that order; else the first string, not empty, of the object;
\* with none of these it raises an error that carries the payload and
\* returns no handle.
C17_HandleOrder ==
    (JsonAnswer /\ p_pc # "input") =>
        IF ExpectedHandle # {}
        THEN p_pc = "returned" /\ ExpectedHandle = {job_name}
        ELSE /\ p_pc = "raised" /\ job_name = ""
             /\ raised = [kind |-> "RuntimeError", js |-> response.body]

\* The object holds id before job_name, and the handle is that of job_name.
C17_Witness ==
    /\ JsonAnswer /\ p_pc = "returned"
    /\ response.body = JObj(<<<<"id", JStr("A")>>, <<"job_name", JStr("B")>>>>)
    /\ job_name = "B"

\* C18: a submission whose response is not 2xx or whose body is no JSON
\* raises and returns no handle.
C18_NoHandleFromText ==
    (p_shape = "submit" /\ p_pc # "input"
        /\ (response.status \notin 200..299 \/ response.body.t = "text")) =>
        p_pc = "raised" /\ job_name = ""

(* ---------------- properties of the wait (FairSpecWait) ---------------- *)
Probed == p_shape = "wait" /\ probes # <<>>

LastProbe == probes[Len(probes)]

\* The probe failed with HTTP 401, 403 or 422.
AuthFailed(p) == p.kind = "http" /\ p.code \in {401, 403, 422}

\* The probe failed in another way.
OtherFailed(p) == p.kind \in {"http", "error"} /\ ~AuthFailed(p)

\* The elapsed time exceeds max_wait.
Exceeded == elapsed > Ticks * max_wait_sec

\* A probe takes half a second at least: no wait makes more probes.
MostProbes == 2 * MaxWait + 1

\* C19: a probe that fails with HTTP 401, 403 or 422 is followed by no
\* further probe and its error reaches the caller; a probe that fails in
\* another way is taken as not ready: the wait goes on, and another probe
\* follows unless the wait has timed out.
C19_FailFastOrGoOn ==
    /\ [](Probed =>
            /\ \A k \in 1..(Len(probes) - 1) : ~AuthFailed(probes[k])
            /\ AuthFailed(LastProbe) =>
                  /\ p_pc = "raised"
                  /\ raised = [kind |-> "HTTPError", status |-> LastProbe.code]
            /\ OtherFailed(LastProbe) =>
                  \/ p_pc \in {"check", "probe"}
                  \/ p_pc = "raised" /\ raised.kind = "TimeoutError" /\ Exceeded)
    /\ \A k \in 1..MostProbes :
          []((Probed /\ Len(probes) = k /\ p_pc = "check"
                /\ OtherFailed(LastProbe) /\ ~Exceeded)
               => <>(Len(probes) = k + 1))

\* A probe failed with 500, the next with 401, and the wait has raised.
C19_Witness ==
    /\ Probed /\ Len(probes) = 2
    /\ probes[1].kind = "http" /\ probes[1].code = 500
    /\ probes[2].kind = "http" /\ probes[2].code = 401
    /\ p_pc = "raised" /\ raised.kind = "HTTPError"

\* C20: the wait ends: it returns after a probe whose page 0 holds an
\* identifier, or raises the error of a probe that failed with 401, 403 or
\* 422, or raises TimeoutError at a check where the elapsed time exceeds
\* max_wait; a check at which max_wait is exceeded is followed by that
\* raise alone, with no sleep and no probe, and nothing follows the end.
C20_WaitEnds ==
    /\ (p_shape = "wait") => <>(p_pc \in {"returned", "raised"})
    /\ []((p_shape = "wait" /\ p_pc = "returned") =>
             Probed /\ LastProbe.kind = "page" /\ LastProbe.ids >= 1)
    /\ []((p_shape = "wait" /\ p_pc = "raised") =>
             \/ raised.kind = "HTTPError" /\ Probed /\ AuthFailed(LastProbe)
             \/ raised.kind = "TimeoutError" /\ Exceeded)
    /\ [][(p_shape = "wait" /\ p_pc = "check" /\ Exceeded) =>
             /\ p_pc' = "raised" /\ raised'.kind = "TimeoutError"
             /\ elapsed' = elapsed /\ probes' = probes]_vars
    /\ [][~(p_shape = "wait" /\ p_pc \in {"returned", "raised"})]_vars

\* The time of a wait of one second ran out during the sleep after the
\* first probe: the second probe was made, and the check after it raised.
C20_Witness ==
    /\ Probed /\ Len(probes) = 2 /\ poll_sec = 1 /\ max_wait_sec = 1
    /\ p_pc = "raised" /\ raised.kind = "TimeoutError" /\ Exceeded

(* ------------ properties of process_one_query (SpecQuery) -------------- *)
\* The query process_one_query was last called for.
QueryItem == IF p_pc \in {"written", "failed"} THEN items[i - 1] ELSE items[i]

\* The rows of that query in the output file.
QueryRowsWritten == DataRowsOf(QueryItem[1], Content)

\* C21: for each query the events come in the order submit, readiness
\* confirmed, page fetches, row writes: every probe is made with the handle
\* a submission returned, without error; a page is fetched only after a
\* probe of page 0 that held an identifier, the last probe made; and rows
\* of the query are in the file only when the fetcher has returned, and are
\* the rows of the hits it returned.
C21_SubmitWaitFetchWrite ==
    (p_shape \in {"submit", "wait", "paged"}) =>
        /\ \A k \in 1..Len(probes) :
              /\ probes[k].job = job_name /\ job_name # ""
              /\ ~StatusRaises(response.status)
              /\ p_shape # "submit"
        /\ page_log # <<>> =>
              /\ probes # <<>>
              /\ probes[Len(probes)].kind = "page" /\ probes[Len(probes)].ids >= 1
              /\ \A k \in 1..Len(page_log) : page_log[k].job = job_name
              /\ p_shape = "paged"
        /\ QueryRowsWritten # <<>> =>
              /\ p_shape = "paged" /\ p_pc = "written"
              /\ StoppedRightly
              /\ QueryRowsWritten = QueryRows(QueryItem, p_out)

\* A query went through two probes and two pages, and its two rows are
\* written.
C21_Witness ==
    /\ p_shape = "paged" /\ p_pc = "written"
    /\ Len(probes) = 2 /\ Len(page_log) = 2 /\ Len(QueryRowsWritten) = 2

\* The page numbers requested for the job of the query, in the order of the
\* requests: those of the probes, then those of the fetcher.
Requested ==
    [k \in 1..(Len(probes) + Len(page_log)) |->
        IF k <= Len(probes) THEN probes[k].num ELSE page_log[k - Len(probes)].num]

\* C22: during the processing of one query the page numbers the fetcher
\* requests for its job are strictly sequential from 0 and it requests none
\* twice; every readiness probe before it requests page 0.
C22_FetcherSequential ==
    (p_shape \in {"submit", "wait", "paged"}) =>
        /\ \A k \in 1..Len(page_log) : page_log[k].num = k - 1
        /\ \A k \in 1..Len(probes) : probes[k].num = 0

\* Two probes, then the pages 0 and 1.
C22_Witness ==
    /\ p_shape = "paged" /\ Len(probes) = 2 /\ Len(page_log) = 2
    /\ Requested = <<0, 0, 0, 1>>

\* C22 as stated: the page numbers requested for the job of a query, by
\* the probes and the fetcher, are 0, 1, 2, ... with none requested twice.
C22_AsStated ==
    (p_shape \in {"submit", "wait", "paged"}) =>
        \A k \in 1..Len(Requested) : Requested[k] = k - 1

(* ------------- the emitted hits, again (SpecParse) --------------------- *)
\* C23: every hit emitted by the neighbors parser, the arrays parser and
\* the paged fetcher has a molecule string that is not empty and an
\* identifier that is not empty, and comes from an entry that has an
\* identifier: an entry whose molecule or identifier is missing or empty
\* is excluded.
C23_HitsComplete ==
    (p_shape \in {"neighbors", "arrays", "paged"}) =>
        \A k \in 1..Len(p_out) :
            /\ p_out[k].hit[1].t = "str" /\ p_out[k].hit[1].s # <<>>
            /\ p_out[k].hit[2] # <<>>
            /\ p_out[k].raw # JNull

\* C24: the paged fetcher aligns a page by the shortest of the arrays that
\* are present: a page with molecule and identifier arrays and no
\* similarity array is aligned at the shorter of the two.
C24_AlignPresentArrays ==
    (p_shape = "paged" /\ page_log # <<>> /\ payload.t = "dict"
        /\ "similarity" \notin DOMAIN payload.d) =>
        page_log[Len(page_log)].cnt =
            Min2(Len(PageList(payload.d, "smiles")), Len(PageList(payload.d, "id")))

(* --------------- the run after a failed query (SpecQuery) -------------- *)
\* The query has failed with HTTP 401, 403 or 422.
QueryAuthFailed ==
    /\ p_shape \in {"submit", "wait", "paged"} /\ p_pc = "failed"
    /\ raised.kind = "HTTPError" /\ raised.status \in {401, 403, 422}

\* C25: in the single-query client, after a query has failed with HTTP 401,
\* 403 or 422 no job is submitted for a later query of the input.
C25_AuthEndsRun ==
    [][QueryAuthFailed => ~(p_shape' = "submit" /\ p_pc' = "input")]_vars

\* C28: in the single-query client a query whose processing fails at any
\* step (the submission, the wait, any page fetch) leaves the output file
\* and the processed set as they were: no step of a query but the writing
\* that follows the return of the fetcher changes them, a failed query has
\* no row and is not in processed, and a written one has the rows of all
\* its hits.
C28_AllRowsOrNone ==
    /\ []((p_shape \in {"submit", "wait", "paged"}) =>
            /\ (p_pc # "written") =>
                  QueryRowsWritten = <<>> /\ QueryItem[1] \notin processed
            /\ (p_pc = "written") =>
                  /\ QueryRowsWritten = QueryRows(QueryItem, p_out)
                  /\ StoppedRightly
                  /\ QueryItem[1] \in processed)
    /\ [][(p_shape \in {"submit", "wait", "paged"} /\ p_pc' # "written") =>
            (disk' = disk /\ buf' = buf /\ processed' = processed)]_vars

\* A page fetch failed after a page with a hit was fetched: the query is
\* reported failed and the file holds the header alone.
C28_Witness ==
    /\ p_shape = "paged" /\ p_pc = "failed"
    /\ page_log # <<>> /\ p_out # <<>>
    /\ Content = <<Header>>

(* ------------------ the end of a batch (Spec) -------------------------- *)
\* C27: in the bulk client every query of a batch that has ended is
\* completed (its hits appended, the query in processed and reported with
\* its hit count) or is reported as failed after the retries: none ends
\* with neither rows nor a report.
C27_BatchOutcomes ==
    (client = "bulk" /\ pc = "after") =>
        \A q \in BatchQids : q \in processed \/ last_err # "none"

(* ------------------- the pacing of the run (Spec) ---------------------- *)
\* C26: between the end of the processing of one item (query or batch) and
\* the first remote call of the next item there is always a pacing delay,
\* after a success and after a failure: a run makes the first remote call
\* for a query only when it has slept since the item before it ended.
C26_PacedItems ==
    [][(InRun /\ attemptedNow' # attemptedNow /\ attemptedNow' # {}) => paced]_vars

=============================================================================
